---- MODULE Spec2Model ----
(***************************************************************************)
(* ModuleVault: the build-and-cache pipeline behind                        *)
(* POST /api/executables/download.  A request looks a package up in the    *)
(* Executable collection, returns the cached artifact when its file is on  *)
(* disk, and otherwise resolves the package, builds an executable in a     *)
(* scratch directory, copies it to the executables directory and writes    *)
(* the record.  One action is one stretch of handler code between two      *)
(* awaits: the completion of the awaited operation followed by the         *)
(* synchronous code up to the next await.                                  *)
(***************************************************************************)
EXTENDS Integers, Sequences, FiniteSets, TLC

(***************************************************************************)
(* Bounds of the model.                                                    *)
(***************************************************************************)
MaxRequests == 2      \* requests issued in one behaviour
MaxClock == 2         \* values Date.now() can take
MaxDraws == 1         \* file names drawn when the service stops taking new
                      \* clients (ServiceSpec)
MaxDownloads == 3     \* downloads a record has when it stops (ServiceSpec)

Reqs == 1..MaxRequests

(***************************************************************************)
(* Strings the code takes apart are sequences of one-character strings.    *)
(***************************************************************************)
LP == <<"l", "p">>
SP == <<"@", "s", "/", "p">>
ZZ == <<"z", "z">>

Undefined == "undefined"
Placeholder == "No description available"

RepositoryManagers == {"npm", "pip"}
OperatingSystems == {"windows", "macos", "linux"}

\* The request bodies the model issues.
\* bodies the validation of the handler refuses: a missing name, a missing
\* repositoryManager, a missing os, an unknown repositoryManager, an unknown os
InvalidInputs ==
  {[name |-> <<>>, repositoryManager |-> "npm", os |-> "linux",
    version |-> Undefined],
   [name |-> SP, repositoryManager |-> "", os |-> "linux",
    version |-> Undefined],
   [name |-> SP, repositoryManager |-> "npm", os |-> "",
    version |-> Undefined],
   [name |-> SP, repositoryManager |-> "gem", os |-> "linux",
    version |-> Undefined],
   [name |-> SP, repositoryManager |-> "npm", os |-> "win",
    version |-> Undefined]}

Inputs ==
  [name : {SP}, repositoryManager : {"npm"}, os : {"linux"},
   version : {Undefined, "latest", "1.0.0"}]
  \cup {[name |-> SP, repositoryManager |-> "npm", os |-> "windows",
         version |-> Undefined],
        [name |-> LP, repositoryManager |-> "pip", os |-> "linux",
         version |-> Undefined],
        [name |-> ZZ, repositoryManager |-> "npm", os |-> "linux",
         version |-> Undefined]}
  \cup InvalidInputs

(***************************************************************************)
(* The registries and the packages they serve (the environment).           *)
(***************************************************************************)
NpmPublished(name) ==
  IF name \in {LP, SP} THEN {"1.0.0", "2.0.0"} ELSE {}

NpmLatest(name) == "2.0.0"

\* The document `npm view --json` prints; a field the registry does not
\* have is absent from the record.  Release 1.0.0 of SP was published
\* without description and keywords.
NpmPackageData(name, version) ==
  IF name = SP /\ version = "2.0.0"
  THEN [name |-> name, version |-> version, description |-> "left pad",
        keywords |-> <<"pad">>]
  ELSE [name |-> name, version |-> version]

PipPublished(name) ==
  IF name = LP THEN {"1.0.0", "2.0.0"} ELSE {}

PipLatest(name) == "2.0.0"

\* what parsePipShowOutput makes of `uv pip show` for a package installed
\* on the host: the Summary line is there and empty, no Keywords line
PipInstalledData(name) ==
  [name |-> name, version |-> "2.0.0", summary |-> ""]

\* what parsePipShowOutput makes of `uv pip show` inside the disposable
\* environment
PipVenvData(name, version) ==
  [name |-> name, version |-> version, summary |-> "left pad"]

\* package.json of the installed module; bin, when present, is the
\* sequence of <<name, path>> pairs of the map in declaration order.
\* Release 2.0.0 of SP declares two commands, the one named after the
\* module second; its release 1.0.0, like the other packages, declares
\* "main" and no "bin".
ModulePackageJson(name, version) ==
  IF name = SP /\ version = "2.0.0"
  THEN [bin |-> <<<<<<"dev">>, "dev.js">>, <<SP, "cli.js">>>>,
        main |-> "index.js"]
  ELSE [main |-> "index.js"]

\* bytes of the binary the toolchain emits
BinarySize(name, os) == IF os = "windows" THEN 7 ELSE 5

(***************************************************************************)
(* String helpers.                                                         *)
(***************************************************************************)
RECURSIVE MapChars(_, _, _)
MapChars(s, from, to) ==
  IF s = <<>> THEN <<>>
  ELSE <<IF Head(s) \in from THEN to ELSE Head(s)>>
       \o MapChars(Tail(s), from, to)

\* name.replace(/^@/, "").replace(/[\/]/g, "_")
SafeName(name) ==
  LET s == IF name # <<>> /\ Head(name) = "@" THEN Tail(name) ELSE name
  IN  MapChars(s, {"/"}, "_")

\* name.replace(/[@\/]/g, "_")
SafePackageName(name) == MapChars(name, {"@", "/"}, "_")

getExecutableExtension(os) ==
  IF os = "windows" THEN <<".exe">> ELSE <<>>

\* `${safeName}_${version}_${os}_${Date.now()}`
BuildId(packageInfo, os, t) ==
  SafeName(packageInfo.name)
    \o <<"_", packageInfo.version, "_", os, "_", ToString(t)>>

\* a name made of the timestamp alone
generateFileNameByTime(baseName, extension, t, rnd) ==
  baseName \o <<"_", ToString(t)>> \o extension

\* `${baseName}_${timestamp}_${random}${extension}`
generateUniqueFileName(baseName, extension, t, rnd) ==
  baseName \o <<"_", ToString(t), "_", ToString(rnd)>> \o extension

\* the baseName buildExecutable passes
ArtifactBaseName(packageInfo, os) ==
  SafePackageName(packageInfo.name) \o <<"_", packageInfo.version, "_", os>>

\* `${safeDirName}_${Date.now()}`
FlatTargetDir(packageInfo, t) ==
  SafeName(packageInfo.name) \o <<"_", ToString(t)>>

\* `pip_${Date.now()}`
PipTempDir(t) == <<"pip", "_", ToString(t)>>


(***************************************************************************)
(* State.                                                                  *)
(***************************************************************************)
VARIABLES
  records,    \* the Executable collection, in insertion order; _id = index
  files,      \* the executables directory: fileName -> size in bytes
  tempDirs,   \* the temp directory: directory name -> set of entries in it
  now,        \* the value Date.now() returns
  random,     \* the number of values drawn from Math.random(), which is
              \* taken never to return the same value twice
  removed,    \* history: fileNames removed from the executables directory
              \* from outside
  req         \* the requests: position in the handler and its locals

vars == <<records, files, tempDirs, now, random, removed, req>>

NoDoc ==
  [id |-> 0, name |-> <<>>, description |-> "", tags |-> <<>>,
   downloads |-> 0, version |-> "", repositoryManager |-> "",
   fileName |-> <<>>, fileSize |-> 0]

NoInfo ==
  [name |-> <<>>, version |-> "", description |-> "", keywords |-> <<>>,
   repositoryManager |-> ""]

NoResult == [success |-> FALSE, fileName |-> <<>>, fileSize |-> 0]

NoInput ==
  [name |-> <<>>, repositoryManager |-> "", os |-> "", version |-> ""]

\* A request before it is issued.  body is req.body; executable,
\* packageInfo, workDir and buildResult are the handler's locals and
\* flatDir is downloadNpmPackage's flatTargetDir (<<>> for pip); status,
\* data and downloadUrl are the response.  The other fields are history:
\* found is the document findOne returned, as returned; filesSeen the
\* files in the executables directory when the handler looked; stored the
\* record as the store held it right after this request's last write;
\* storeError whether a store operation of the request threw; before the
\* collection, and inflight the requests not yet answered, when the
\* request arrived; resolves, builds, mkdirs, releases and writes count its
\* calls of getPackageInfo, of buildExecutable, of mkdirSync(workDir), of
\* cleanupDirectory(workDir) and of the store's write operations; created
\* whether mkdirSync(workDir) returned.  executableName, entryPoint and
\* targetPlatform are the locals of createNpmExecutable (<<>> until set;
\* entryPoint is relative to the directory of the installed module);
\* pipTempDir is the tempDir of getPipPackageInfo, <<>> when it made none.
\* api tells which entry point serves the request, router.post('/download')
\* ("rest") or Mutation.downloadExecutable ("graphql"), whose code is the
\* same from findOne on; success is the success field of the answer.
IdleReq ==
  [pc |-> "idle", body |-> NoInput, executable |-> NoDoc,
   packageInfo |-> NoInfo, workDir |-> <<>>, flatDir |-> <<>>,
   buildResult |-> NoResult,
   status |-> 0, data |-> NoDoc, downloadUrl |-> <<>>,
   found |-> NoDoc, filesSeen |-> {}, stored |-> NoDoc,
   storeError |-> FALSE, before |-> <<>>, inflight |-> {},
   resolves |-> 0, builds |-> 0, mkdirs |-> 0, created |-> FALSE,
   releases |-> 0,
   writes |-> 0,
   executableName |-> <<>>, entryPoint |-> <<>>, targetPlatform |-> <<>>,
   pipTempDir |-> <<>>,
   api |-> "rest", success |-> FALSE]

EmptyMap == [x \in {} |-> 0]

Init ==
  /\ records = <<>>
  /\ files = EmptyMap
  /\ tempDirs = EmptyMap
  /\ now = 1
  /\ random = 0
  /\ removed = {}
  /\ req = [r \in Reqs |-> IdleReq]

(***************************************************************************)
(* The store (the mongoose model of Executable).                           *)
(***************************************************************************)
\* Executable.findOne(searchCriteria): the records that match
FindOneMatches(recs, name, repositoryManager, version) ==
  {i \in 1..Len(recs) :
     /\ recs[i].name = name
     /\ recs[i].repositoryManager = repositoryManager
     /\ (version # Undefined => recs[i].version = version)}

\* a save that persists nothing
SaveDownloadsLost(recs, doc) == recs

\* a save that inserts the document instead of updating it
SaveAsNew(recs, doc) == Append(recs, doc)

\* executable.save() after `downloads += 1`: only the modified path is set
SaveDownloads(recs, doc) ==
  [recs EXCEPT ![doc.id].downloads = doc.downloads]

\* Executable.create(executableData)
Create(recs, data) ==
  Append(recs, [data EXCEPT !.id = Len(recs) + 1])

\* Executable.updateOne({ _id }, executableData)
UpdateOne(recs, id, data) ==
  [recs EXCEPT ![id] = [data EXCEPT !.id = id]]

\* Executable.findById(id)
FindById(recs, id) == IF id \in 1..Len(recs) THEN recs[id] ELSE NoDoc

(***************************************************************************)
(* The file system.                                                        *)
(***************************************************************************)
Exists(dirs, d) == d \in DOMAIN dirs

Without(f, x) == [y \in DOMAIN f \ {x} |-> f[y]]

\* fs.mkdirSync(d, { recursive: true }): keeps a directory that exists
Mkdir(dirs, d) == IF Exists(dirs, d) THEN dirs ELSE (d :> {}) @@ dirs

\* a write of entry e into directory d; the caller has checked d exists
WriteEntry(dirs, d, e) == [dirs EXCEPT ![d] = @ \cup {e}]

\* fileUtils.cleanupDirectory(dirPath) inside buildExecutable's finally:
\* the directory trees it can leave.  rmSync removes the directory or
\* throws, and buildExecutable swallows the exception.
cleanupDirectory(dirs, d) ==
  IF Exists(dirs, d) THEN {Without(dirs, d), dirs} ELSE {dirs}


\* fileUtils.getFileSize(filePath): the values it can return.  statSync
\* returns the size of the file or throws, and a throw is answered with 0.
getFileSize(fls, f) == IF f \in DOMAIN fls THEN {fls[f], 0} ELSE {0}

(***************************************************************************)
(* packageService: resolving a package.  An operator that consults the     *)
(* environment yields the set of results the call can have.                *)
(***************************************************************************)
Has(rec, field) == field \in DOMAIN rec

\* `text || 'No description available'`: undefined and "" are falsy
OrPlaceholder(rec, field) ==
  IF Has(rec, field) /\ rec[field] # "" THEN rec[field] ELSE Placeholder

\* `packageData.keywords || []`
OrEmpty(rec, field) == IF Has(rec, field) THEN rec[field] ELSE <<>>

\* getNpmPackageInfo(name, version): [ok |-> FALSE] is a throw.  `npm view`
\* fails when the registry is unreachable or does not have the package.
getNpmPackageInfo(name, version) ==
  LET resolved == IF version = "latest" THEN NpmLatest(name) ELSE version
      packageData == NpmPackageData(name, resolved)
  IN  {[ok |-> FALSE, info |-> NoInfo]}
      \cup IF resolved \in NpmPublished(name)
           THEN {[ok |-> TRUE,
                  info |->
                    [name |-> packageData.name,
                     version |-> packageData.version,
                     description |->
                       OrPlaceholder(packageData, "description"),
                     keywords |-> OrEmpty(packageData, "keywords"),
                     repositoryManager |-> "npm"]]}
           ELSE {}

\* the return that reads the registry's text under the npm field name
PipInfoFromDescription(packageData) ==
  [name |-> packageData.name,
   version |-> packageData.version,
   description |-> OrPlaceholder(packageData, "description"),
   keywords |-> OrEmpty(packageData, "keywords"),
   repositoryManager |-> "pip"]

\* the object getPipPackageInfo returns from the parsed `uv pip show`
PipInfo(packageData) ==
  [name |-> packageData.name,
   version |-> packageData.version,
   description |-> OrPlaceholder(packageData, "summary"),
   keywords |-> OrEmpty(packageData, "keywords"),
   repositoryManager |-> "pip"]

\* getPipPackageInfo(name, version) called at time t with temp directory
\* dirs: `uv pip show` on the host, else a disposable environment under
\* temp/pip_<t>, removed in the finally (a failed removal is swallowed).
\* tempDir is the directory of that environment, <<>> when none was made.
getPipPackageInfo(name, version, t, dirs) ==
  LET resolved == IF version = "latest" THEN PipLatest(name) ELSE version
      tempDir == PipTempDir(t)
      made == [Mkdir(dirs, tempDir) EXCEPT ![tempDir] = @ \cup {<<"venv">>}]
      after == {Without(made, tempDir), made}
  IN  (IF PipPublished(name) # {}
       THEN {[ok |-> TRUE, info |-> PipInfo(PipInstalledData(name)),
              dirs |-> dirs, tempDir |-> <<>>]}
       ELSE {})
      \cup {[ok |-> FALSE, info |-> NoInfo, dirs |-> d,
             tempDir |-> tempDir] : d \in after}
      \cup (IF resolved \in PipPublished(name)
            THEN {[ok |-> TRUE, info |-> PipInfo(PipVenvData(name, resolved)),
                   dirs |-> d, tempDir |-> tempDir] : d \in after}
            ELSE {})

\* getPackageInfo(name, repositoryManager, version = 'latest'): every throw
\* is caught and becomes null (NoInfo)
getPackageInfo(name, repositoryManager, version, t, dirs) ==
  LET v == IF version = Undefined THEN "latest" ELSE version
  IN  IF repositoryManager = "npm"
      THEN {[info |-> IF o.ok THEN o.info ELSE NoInfo, dirs |-> dirs,
             tempDir |-> <<>>] :
              o \in getNpmPackageInfo(name, v)}
      ELSE IF repositoryManager = "pip"
      THEN {[info |-> IF o.ok THEN o.info ELSE NoInfo, dirs |-> o.dirs,
             tempDir |-> o.tempDir] :
              o \in getPipPackageInfo(name, v, t, dirs)}
      ELSE {[info |-> NoInfo, dirs |-> dirs, tempDir |-> <<>>]}


(***************************************************************************)
(* buildService: building an executable.  Each operator is the stretch of  *)
(* buildExecutable between two awaits and yields the set of outcomes       *)
(* [pc, dirs, files, result, drew, released]: where the build waits next,  *)
(* the temp and executables directories it leaves, once buildExecutable    *)
(* has returned (pc = "buildExecutable") its result, how many values it    *)
(* drew from Math.random(), and how many times it called cleanupDirectory  *)
(* on its workDir.                                                         *)
(***************************************************************************)
NodeModules == <<"node_modules">>
PackageJson == <<"package.json">>
IndexJs == <<"index.js">>
Venv == <<"venv">>
WrapperPy == <<"wrapper.py">>
DistWrapper == <<"dist/wrapper">>

\* a catch with no finally: { success: false } and no cleanup
BuildFailedUnreleased(workDir, dirs, fls) ==
  {[pc |-> "buildExecutable", dirs |-> dirs, files |-> fls,
    result |-> NoResult, drew |-> 0, released |-> 0]}

\* catch + finally of buildExecutable: { success: false } after the cleanup
BuildFailed(workDir, dirs, fls) ==
  {[pc |-> "buildExecutable", dirs |-> d, files |-> fls,
    result |-> NoResult, drew |-> 0, released |-> 1] :
     d \in cleanupDirectory(dirs, workDir)}

\* buildExecutable up to `await packageService.downloadPackage(...)`:
\* mkdirSync(workDir), then downloadNpmPackage or downloadPipPackage, which
\* run without awaiting anything.  made tells whether mkdirSync returned.
BuildBegin(packageInfo, os, t, dirs, fls) ==
  LET workDir == BuildId(packageInfo, os, t)
      made == Mkdir(dirs, workDir)
      flat == FlatTargetDir(packageInfo, t)
      withFlat == (flat :> {PackageJson}) @@ Without(made, flat)
      Go(d) == {[pc |-> "downloadPackage", dirs |-> d, files |-> fls,
                 result |-> NoResult, drew |-> 0, released |-> 0]}
      after ==
        IF packageInfo.repositoryManager = "npm"
        THEN BuildFailed(workDir, withFlat, fls)  \* npm install throws
             \cup Go(Without(WriteEntry(withFlat, workDir, NodeModules),
                             flat))
        ELSE IF packageInfo.repositoryManager = "pip"
        THEN BuildFailed(workDir, made, fls)      \* uv venv / install throws
             \cup Go(WriteEntry(made, workDir, Venv))
        ELSE Go(made)
  IN  {o @@ [made |-> FALSE] :
         o \in BuildFailed(workDir, dirs, fls)}   \* mkdirSync throws
      \cup {o @@ [made |-> TRUE] : o \in after}

\* the name createNpmExecutable gives the binary
NpmExecutableName(moduleName, os) ==
  IF os = "win" THEN moduleName \o <<".exe">> ELSE moduleName

\* a finish whose cleanup failure is not swallowed: the build that
\* published its file returns a failure when the removal throws
BuildFinishStrict(packageInfo, os, workDir, executable, t, rnd, dirs, fls) ==
  LET fileName ==
        generateUniqueFileName(ArtifactBaseName(packageInfo, os),
                               getExecutableExtension(os), t, rnd)
      copied == (fileName :> BinarySize(packageInfo.name, os)) @@ fls
  IN  {[o EXCEPT !.drew = 1] : o \in BuildFailed(workDir, dirs, fls)}
      \cup
      IF Exists(dirs, workDir) /\ executable \in dirs[workDir]
      THEN {[pc |-> "buildExecutable", dirs |-> Without(dirs, workDir),
             files |-> copied,
             result |-> [success |-> TRUE, fileName |-> fileName,
                         fileSize |-> size],
             drew |-> 1, released |-> 1] :
              size \in getFileSize(copied, fileName)}
           \cup {[pc |-> "buildExecutable", dirs |-> dirs, files |-> copied,
                  result |-> NoResult, drew |-> 1, released |-> 1]}
      ELSE {}

\* buildExecutable from the generation of the file name to its return:
\* copy the binary to the executables directory, stat it, clean up.  rnd
\* is the value Math.random() returns.
BuildFinish(packageInfo, os, workDir, executable, t, rnd, dirs, fls) ==
  LET fileName ==
        generateUniqueFileName(ArtifactBaseName(packageInfo, os),
                               getExecutableExtension(os), t, rnd)
      copied == (fileName :> BinarySize(packageInfo.name, os)) @@ fls
  IN  {[o EXCEPT !.drew = 1] :
         o \in BuildFailed(workDir, dirs, fls)}   \* copyFileSync throws
      \cup
      IF Exists(dirs, workDir) /\ executable \in dirs[workDir]
      THEN {[pc |-> "buildExecutable", dirs |-> d, files |-> copied,
             result |-> [success |-> TRUE, fileName |-> fileName,
                         fileSize |-> size],
             drew |-> 1, released |-> 1] :
              d \in cleanupDirectory(dirs, workDir),
              size \in getFileSize(copied, fileName)}
      ELSE {}

\* createPipExecutable, which awaits nothing: pyinstaller writes
\* dist/wrapper of the host, the code looks for dist/wrapper + extension
createPipExecutable(packageInfo, os, workDir, t, rnd, dirs, fls) ==
  BuildFailed(workDir, dirs, fls)                 \* a command throws
  \cup
  IF Exists(dirs, workDir)
  THEN LET built == [dirs EXCEPT ![workDir] = @ \cup {WrapperPy, DistWrapper}]
           executablePath == DistWrapper \o getExecutableExtension(os)
       IN  IF executablePath \in built[workDir]
           THEN BuildFinish(packageInfo, os, workDir, executablePath, t,
                            rnd, built, fls)
           ELSE BuildFailed(workDir, built, fls)
  ELSE {}

\* createExecutable after downloadPackage returned.  createNpmExecutable
\* runs up to `await this.executeCommand("npm install pkg")`.
CreateExecutableBegin(packageInfo, os, workDir, t, rnd, dirs, fls) ==
  IF packageInfo.repositoryManager = "npm"
  THEN IF packageInfo.name = <<>> \/ packageInfo.version = ""
       THEN BuildFailed(workDir, dirs, fls)
       ELSE {[pc |-> "npmInstallPkg",
              dirs |-> [Mkdir(dirs, workDir) EXCEPT
                          ![workDir] = @ \cup {PackageJson, IndexJs}],
              files |-> fls, result |-> NoResult, drew |-> 0,
              released |-> 0]}
  ELSE IF packageInfo.repositoryManager = "pip"
  THEN createPipExecutable(packageInfo, os, workDir, t, rnd, dirs, fls)
  ELSE BuildFailed(workDir, dirs, fls)

\* the entry point createNpmExecutable picks from the module's
\* package.json; <<>> when it throws
EntryPoint(moduleName, modulePackageJson) ==
  IF Has(modulePackageJson, "bin")
  THEN LET bin == modulePackageJson.bin
           named == {i \in 1..Len(bin) : bin[i][1] = moduleName}
       IN  IF named # {} THEN <<(bin[CHOOSE i \in named : TRUE])[2]>>
           ELSE IF bin # <<>> THEN <<bin[1][2]>>
           ELSE <<>>
  ELSE IF Has(modulePackageJson, "main")
  THEN <<modulePackageJson.main>>
  ELSE <<>>

\* `node16-${os}-x64`, the --targets argument createNpmExecutable gives
\* pkg, as its tokens
TargetPlatform(os) == <<"node16", os, "x64">>

\* createNpmExecutable after `npm install pkg` finished, up to
\* `await this.executeCommand(pkgCommand)`
AfterNpmInstallPkg(packageInfo, os, workDir, dirs, fls) ==
  BuildFailed(workDir, dirs, fls)                 \* npm install pkg fails
  \cup
  IF Exists(dirs, workDir)
  THEN LET installed == WriteEntry(dirs, workDir, NodeModules)
           \* node_modules/<moduleName>/package.json can be read
           present == {PackageJson, NodeModules} \cap dirs[workDir] # {}
       IN  IF \/ ~present
              \/ EntryPoint(packageInfo.name,
                            ModulePackageJson(packageInfo.name,
                                              packageInfo.version)) = <<>>
           THEN BuildFailed(workDir, installed, fls)
           ELSE {[pc |-> "pkg", dirs |-> installed, files |-> fls,
                  result |-> NoResult, drew |-> 0, released |-> 0]}
  ELSE {}

\* createNpmExecutable after pkg finished, and the rest of buildExecutable
AfterPkg(packageInfo, os, workDir, t, rnd, dirs, fls) ==
  BuildFailed(workDir, dirs, fls)                 \* pkg fails
  \cup
  IF Exists(dirs, workDir)
  THEN LET executable == NpmExecutableName(packageInfo.name, os)
       IN  BuildFinish(packageInfo, os, workDir, executable, t, rnd,
                       WriteEntry(dirs, workDir, executable), fls)
  ELSE {}


(***************************************************************************)
(* router.post('/download'): the handler, one action per await.            *)
(***************************************************************************)
\* the validation that forgets the list of operating systems
ValidBodyAnyOs(b) ==
  /\ b.name # <<>> /\ b.repositoryManager # "" /\ b.os # ""
  /\ b.repositoryManager \in RepositoryManagers

\* the checks that answer 400
ValidBody(b) ==
  /\ b.name # <<>> /\ b.repositoryManager # "" /\ b.os # ""
  /\ b.repositoryManager \in RepositoryManagers
  /\ b.os \in OperatingSystems

\* `if (version) searchCriteria.version = version`
CriteriaVersion(version) == IF version = "" THEN Undefined ELSE version

\* res.status(status).json(...)
Responded(q, status, doc, url) ==
  [q EXCEPT !.pc = "done",
            !.status = IF q.api = "graphql" THEN 0 ELSE status,
            !.success = status \in {200, 201},
            !.data = doc,
            !.downloadUrl = url]

\* downloads that start from 0 on the first build
BuiltDownloadsFromZero(executable) ==
  IF executable # NoDoc THEN executable.downloads + 1 ELSE 0

\* the downloads of the record a build writes
BuiltDownloads(executable) ==
  IF executable # NoDoc THEN executable.downloads + 1 ELSE 1

\* executableData
ExecutableData(q) ==
  [id |-> 0,
   name |-> q.packageInfo.name,
   description |->
     IF q.packageInfo.description # "" THEN q.packageInfo.description
     ELSE Placeholder,
   tags |-> q.packageInfo.keywords,
   downloads |-> BuiltDownloads(q.executable),
   version |-> q.packageInfo.version,
   repositoryManager |-> q.body.repositoryManager,
   fileName |-> q.buildResult.fileName,
   fileSize |-> q.buildResult.fileSize]

\* a handler that never tests the resolver's result
NotFoundIgnored(packageInfo) == FALSE

\* `if (!packageInfo)`
NotFound(packageInfo) == packageInfo = NoInfo

\* a handler that never tests the build's result
BuildFailureIgnored(buildResult) == FALSE

\* a handler that tests the build's result the wrong way round
BuildFailureInverted(buildResult) == buildResult.success

\* `if (!buildResult.success)`
BuildFailure(buildResult) == ~buildResult.success

\* a request with one of the bodies arrives; the handler validates it and
\* calls findOne
StartFrom(r, bodies) ==
  /\ req[r].pc = "idle"
  /\ IF r = 1 THEN TRUE ELSE req[r - 1].pc # "idle"
  /\ \E b \in bodies :
       req' = [req EXCEPT ![r] =
                 LET q == [@ EXCEPT !.body = b,
                                    !.before = records,
                                    !.inflight =
                                      {x \in Reqs :
                                         req[x].pc \notin {"idle", "done"}}]
                 IN  IF ValidBody(b)
                     THEN [q EXCEPT !.pc = "findOne"]
                     ELSE Responded(q, 400, NoDoc, <<>>)]
  /\ UNCHANGED <<records, files, tempDirs, now, random, removed>>

Start(r) == StartFrom(r, Inputs)

\* a downloadExecutable mutation with one of the bodies arrives: the
\* resolver checks nothing and calls findOne
MutationStartFrom(r, bodies) ==
  /\ req[r].pc = "idle"
  /\ IF r = 1 THEN TRUE ELSE req[r - 1].pc # "idle"
  /\ \E b \in bodies :
       req' = [req EXCEPT ![r] =
                 [@ EXCEPT !.pc = "findOne", !.api = "graphql", !.body = b,
                           !.before = records,
                           !.inflight =
                             {x \in Reqs :
                                req[x].pc \notin {"idle", "done"}}]]
  /\ UNCHANGED <<records, files, tempDirs, now, random, removed>>

\* `const fs = require('fs')` inside the resolver, whose file is an ES
\* module: require is not defined when node runs the module as it is (the
\* statement throws a ReferenceError), and is defined when the file is
\* transpiled to CommonJS.  TRUE when the statement returns.
RequireFs == {TRUE, FALSE}

\* the catch of the handler after a store operation threw
StoreFailed(r) ==
  /\ req' = [req EXCEPT ![r] =
               Responded([@ EXCEPT !.storeError = TRUE], 500, NoDoc, <<>>)]
  /\ UNCHANGED <<records, files, tempDirs, now, random, removed>>

\* findOne returned: a cache hit increments downloads and calls save;
\* otherwise getPackageInfo runs (it awaits nothing before it returns)
FindOneDone(r) ==
  /\ req[r].pc = "findOne"
  /\ LET q == req[r]
         b == q.body
         matches == FindOneMatches(records, b.name, b.repositoryManager,
                                   CriteriaVersion(b.version))
         docs == IF matches = {} THEN {NoDoc}
                 ELSE {records[i] : i \in matches}
     IN  \/ StoreFailed(r)
         \/ \E e \in docs :
              \* the resolver's `if (executable)` branch throws at require
              /\ q.api = "graphql" /\ e # NoDoc /\ FALSE \in RequireFs
              /\ req' = [req EXCEPT ![r] =
                           Responded([q EXCEPT !.found = e,
                                               !.executable = e,
                                               !.filesSeen = DOMAIN files],
                                     500, NoDoc, <<>>)]
              /\ UNCHANGED <<records, files, tempDirs, now, random, removed>>
         \/ \E e \in docs :
              IF e # NoDoc /\ e.fileName \in DOMAIN files
              THEN /\ req' = [req EXCEPT ![r] =
                                [q EXCEPT !.pc = "save", !.found = e,
                                          !.filesSeen = DOMAIN files,
                                          !.executable =
                                            [e EXCEPT !.downloads = @ + 1]]]
                   /\ UNCHANGED <<records, files, tempDirs, now, random, removed>>
              ELSE \E o \in getPackageInfo(b.name, b.repositoryManager,
                                           b.version, now, tempDirs) :
                     /\ req' = [req EXCEPT ![r] =
                                  [q EXCEPT !.pc = "getPackageInfo",
                                            !.found = e, !.executable = e,
                                            !.filesSeen = DOMAIN files,
                                            !.packageInfo = o.info,
                                            !.pipTempDir = o.tempDir,
                                            !.resolves = @ + 1]]
                     /\ tempDirs' = o.dirs
                     /\ UNCHANGED <<records, files, now, random, removed>>

\* executable.save() returned: 200 with the document
SaveDone(r) ==
  /\ req[r].pc = "save"
  /\ \/ StoreFailed(r)
     \/ /\ records' = SaveDownloads(records, req[r].executable)
        /\ LET q == req[r]
           IN  req' = [req EXCEPT ![r] =
                         Responded([q EXCEPT !.writes = @ + 1,
                                             !.stored =
                                               records'[q.executable.id]],
                                   200, q.executable,
                                   q.executable.fileName)]
        /\ UNCHANGED <<files, tempDirs, now, random, removed>>

\* a step of the build: the request takes one of the outcomes
BuildStepWith(r, q, outcomes) ==
  \E o \in outcomes :
    /\ req' = [req EXCEPT ![r] =
                 [q EXCEPT !.pc = o.pc, !.buildResult = o.result,
                           !.releases = @ + o.released]]
    /\ tempDirs' = o.dirs
    /\ files' = o.files
    /\ random' = random + o.drew
    /\ UNCHANGED <<records, now, removed>>

BuildStep(r, outcomes) == BuildStepWith(r, req[r], outcomes)

\* getPackageInfo returned: 404 on null, otherwise buildExecutable starts
GetPackageInfoDone(r) ==
  /\ req[r].pc = "getPackageInfo"
  /\ LET q == req[r]
     IN  IF NotFound(q.packageInfo)
         THEN /\ req' = [req EXCEPT ![r] = Responded(q, 404, NoDoc, <<>>)]
              /\ UNCHANGED <<records, files, tempDirs, now, random, removed>>
         ELSE \E o \in BuildBegin(q.packageInfo, q.body.os, now, tempDirs,
                                  files) :
                /\ req' = [req EXCEPT ![r] =
                             [q EXCEPT !.pc = o.pc,
                                       !.buildResult = o.result,
                                       !.workDir =
                                         BuildId(q.packageInfo, q.body.os,
                                                 now),
                                       !.flatDir =
                                         IF q.packageInfo.repositoryManager
                                              = "npm"
                                         THEN FlatTargetDir(q.packageInfo,
                                                            now)
                                         ELSE <<>>,
                                       !.builds = @ + 1,
                                       !.mkdirs = @ + 1,
                                       !.created = o.made,
                                       !.releases = @ + o.released]]
                /\ tempDirs' = o.dirs
                /\ files' = o.files
                /\ UNCHANGED <<records, now, random, removed>>

\* downloadPackage returned
DownloadPackageDone(r) ==
  /\ req[r].pc = "downloadPackage"
  /\ LET info == req[r].packageInfo
         q == IF /\ info.repositoryManager = "npm"
                 /\ info.name # <<>> /\ info.version # ""
              THEN [req[r] EXCEPT !.executableName =
                                    NpmExecutableName(info.name,
                                                      req[r].body.os)]
              ELSE req[r]
     IN  BuildStepWith(r, q,
                       CreateExecutableBegin(info, req[r].body.os,
                                             req[r].workDir, now,
                                             random + 1, tempDirs, files))

\* `npm install pkg` finished
NpmInstallPkgDone(r) ==
  /\ req[r].pc = "npmInstallPkg"
  /\ LET info == req[r].packageInfo
         outcomes == AfterNpmInstallPkg(info, req[r].body.os,
                                        req[r].workDir, tempDirs, files)
         q == [req[r] EXCEPT
                 !.entryPoint =
                   EntryPoint(info.name,
                              ModulePackageJson(info.name, info.version)),
                 !.targetPlatform = TargetPlatform(req[r].body.os)]
     IN  \/ BuildStepWith(r, q, {o \in outcomes : o.pc = "pkg"})
         \/ BuildStep(r, {o \in outcomes : o.pc # "pkg"})

\* pkg finished
PkgDone(r) ==
  /\ req[r].pc = "pkg"
  /\ BuildStep(r, AfterPkg(req[r].packageInfo, req[r].body.os,
                           req[r].workDir, now, random + 1, tempDirs,
                           files))

\* buildExecutable returned: 500 on failure, otherwise write the record
BuildExecutableDone(r) ==
  /\ req[r].pc = "buildExecutable"
  /\ LET q == req[r]
     IN  req' = [req EXCEPT ![r] =
                   IF BuildFailure(q.buildResult)
                   THEN Responded(q, 500, NoDoc, <<>>)
                   ELSE [q EXCEPT !.pc = IF q.executable # NoDoc
                                         THEN "updateOne" ELSE "create"]]
  /\ UNCHANGED <<records, files, tempDirs, now, random, removed>>

\* updateOne returned; findById is called
UpdateOneDone(r) ==
  /\ req[r].pc = "updateOne"
  /\ \/ StoreFailed(r)
     \/ /\ records' = UpdateOne(records, req[r].executable.id,
                                ExecutableData(req[r]))
        /\ req' = [req EXCEPT ![r].pc = "findById", ![r].writes = @ + 1,
                              ![r].stored = records'[req[r].executable.id]]
        /\ UNCHANGED <<files, tempDirs, now, random, removed>>

\* findById returned: 201 with the document read back
FindByIdDone(r) ==
  /\ req[r].pc = "findById"
  /\ \/ StoreFailed(r)
     \/ /\ LET q == req[r]
               doc == FindById(records, q.executable.id)
           IN  req' = [req EXCEPT ![r] =
                         Responded([q EXCEPT !.executable = doc], 201, doc,
                                   q.buildResult.fileName)]
        /\ UNCHANGED <<records, files, tempDirs, now, random, removed>>

\* create returned: 201 with the new document
CreateDone(r) ==
  /\ req[r].pc = "create"
  /\ \/ StoreFailed(r)
     \/ /\ records' = Create(records, ExecutableData(req[r]))
        /\ LET q == req[r]
               doc == records'[Len(records')]
           IN  req' = [req EXCEPT ![r] =
                         Responded([q EXCEPT !.writes = @ + 1,
                                             !.stored = doc,
                                             !.executable = doc],
                                   201, doc, q.buildResult.fileName)]
        /\ UNCHANGED <<files, tempDirs, now, random, removed>>

(***************************************************************************)
(* The environment.                                                        *)
(***************************************************************************)
\* The positions from which the next step of a request reads the clock,
\* and those from which it tests whether an artifact exists.
ReadsClock(r) ==
  req[r].pc \in {"findOne", "getPackageInfo", "downloadPackage", "pkg"}

ReadsFiles(r) == req[r].pc = "findOne"

\* time passes (a step that matters only to the next reader of the clock)
Tick ==
  /\ now < MaxClock
  /\ \E r \in Reqs : ReadsClock(r)
  /\ now' = now + 1
  /\ UNCHANGED <<records, files, tempDirs, random, removed, req>>

\* somebody removes the artifact of a record from the executables
\* directory (a step that matters only to the next existsSync)
RemoveFile ==
  /\ \E r \in Reqs : ReadsFiles(r)
  /\ \E i \in 1..Len(records) :
       /\ records[i].fileName \in DOMAIN files
       /\ files' = Without(files, records[i].fileName)
       /\ removed' = removed \cup {records[i].fileName}
  /\ UNCHANGED <<records, tempDirs, now, random, req>>

Step(r) ==
  \/ FindOneDone(r)
  \/ SaveDone(r)
  \/ GetPackageInfoDone(r)
  \/ DownloadPackageDone(r)
  \/ NpmInstallPkgDone(r)
  \/ PkgDone(r)
  \/ BuildExecutableDone(r)
  \/ UpdateOneDone(r)
  \/ FindByIdDone(r)
  \/ CreateDone(r)

Next ==
  \/ \E r \in Reqs : Start(r)
  \/ \E r \in Reqs : Step(r)
  \/ Tick
  \/ RemoveFile

Spec == Init /\ [][Next]_vars

(***************************************************************************)
(* The same program when each request is issued after the previous one     *)
(* was answered.                                                           *)
(***************************************************************************)
Answered(r) == req[r].pc = "done"

SeqNext ==
  \/ \E r \in Reqs : (IF r = 1 THEN TRUE ELSE Answered(r - 1)) /\ Start(r)
  \/ \E r \in Reqs : Step(r)
  \/ Tick
  \/ RemoveFile

SeqSpec == Init /\ [][SeqNext]_vars

TypeOK ==
  /\ now \in 1..MaxClock
  /\ \A r \in Reqs : req[r].status \in {0, 200, 201, 400, 404, 500}

(***************************************************************************)
(* Vocabulary of the properties.                                           *)
(***************************************************************************)
\* the request was answered with a record
Succeeded(r) == Answered(r) /\ req[r].status \in {200, 201}

\* the lookup of r found a record whose file the handler saw on disk
Hit(r) ==
  /\ req[r].found # NoDoc
  /\ req[r].found.fileName \in req[r].filesSeen

\* r met no other request: none was in flight when it arrived and none
\* arrived after it
Alone(r) ==
  /\ req[r].inflight = {}
  /\ IF r = MaxRequests THEN TRUE ELSE req[r + 1].pc = "idle"

\* r and the request before it are the same request, both answered
Repeats(r) ==
  /\ r > 1
  /\ Answered(r)
  /\ Answered(r - 1)
  /\ req[r].body = req[r - 1].body

\* the build of r has a workspace it has not released yet
Building(r) == req[r].pc \in {"downloadPackage", "npmInstallPkg", "pkg"}

\* s begins with p and goes on
StartsWith(s, p) == Len(s) > Len(p) /\ SubSeq(s, 1, Len(p)) = p

\* p is name with every "@" and "/" replaced by some other character
IsSafeName(p, name) ==
  /\ Len(p) = Len(name)
  /\ \A i \in 1..Len(name) :
       IF name[i] \in {"@", "/"} THEN p[i] \notin {"@", "/"}
       ELSE p[i] = name[i]

(***************************************************************************)
(* C1.  A request that finds no record for its key, builds and returns     *)
(* record R, followed at once by the same request (the file of R still on  *)
(* disk, no store error), is answered with the record of R's id and        *)
(* fileName with downloads = R.downloads + 1, and the two requests call    *)
(* the builder once in all.  Stated as the claim states it, for every      *)
(* key; the requests whose version is "latest" violate it.                 *)
(***************************************************************************)
C1_IdempotentCache ==
  \A r \in Reqs :
    ( /\ Repeats(r)
      /\ req[r - 1].status = 201
      /\ req[r - 1].found = NoDoc
      /\ req[r - 1].data.fileName \in req[r].filesSeen
      /\ ~req[r].storeError )
    => /\ Succeeded(r)
       /\ req[r].data.id = req[r - 1].data.id
       /\ req[r].data.fileName = req[r - 1].data.fileName
       /\ req[r].data.downloads = req[r - 1].data.downloads + 1
       /\ req[r - 1].builds + req[r].builds = 1

(***************************************************************************)
(* C2.  Two requests for the same key that are in flight together, the     *)
(* collection holding no record when either arrived, and that are both     *)
(* answered with a record, ran one build between them and left one record. *)
(***************************************************************************)
C2_OneBuildPerKey ==
  \A r1, r2 \in Reqs :
    ( /\ r1 < r2
      /\ Succeeded(r1) /\ Succeeded(r2)
      /\ req[r1].body = req[r2].body
      /\ r1 \in req[r2].inflight
      /\ req[r1].before = <<>> /\ req[r2].before = <<>> )
    => /\ req[r1].builds + req[r2].builds = 1
       /\ Cardinality({i \in 1..Len(records) :
                         /\ records[i].name = req[r1].body.name
                         /\ records[i].repositoryManager =
                              req[r1].body.repositoryManager}) = 1

(***************************************************************************)
(* C3.  A request whose lookup found a record with its file on disk calls  *)
(* neither the resolver nor the builder and, unless the store throws, is   *)
(* answered 200 with that record, downloads one higher, which is what the  *)
(* store holds after the save; nothing else of the record changes.  A      *)
(* request calls the builder only if its lookup found no record or found   *)
(* one whose file was missing.                                             *)
(***************************************************************************)
C3_HitServesTheRecord ==
  \A r \in Reqs :
    /\ Hit(r) =>
         /\ req[r].resolves = 0 /\ req[r].builds = 0 /\ req[r].mkdirs = 0
         /\ (Answered(r) /\ ~req[r].storeError) =>
              /\ req[r].status = 200
              /\ req[r].data =
                   [req[r].found EXCEPT !.downloads = @ + 1]
              /\ req[r].stored.id = req[r].found.id
              /\ req[r].stored.downloads = req[r].found.downloads + 1
              /\ req[r].writes = 1
              /\ Alone(r) =>
                   records = [req[r].before EXCEPT
                                ![req[r].found.id].downloads = @ + 1]
    /\ req[r].builds > 0 =>
         \/ req[r].found = NoDoc
         \/ req[r].found.fileName \notin req[r].filesSeen

C3_Witness ==
  \E r \in Reqs :
    /\ Hit(r) /\ Answered(r) /\ req[r].status = 200 /\ Alone(r)
    /\ req[r].found.downloads >= 1

(***************************************************************************)
(* C4.  When the file of the record R that answered a request is gone at   *)
(* the time the same request is made again, the second request is not      *)
(* answered from the cache, runs at most one build, and, when it succeeds, *)
(* ran one build and rewrote R in place: R's id, as many records as        *)
(* before, another fileName, downloads = R.downloads + 1.  Stated as the   *)
(* claim states it.                                                        *)
(***************************************************************************)
C4_StaleRebuild ==
  \A r \in Reqs :
    ( /\ Repeats(r)
      /\ Succeeded(r - 1)
      /\ req[r - 1].data.fileName \notin req[r].filesSeen
      /\ ~req[r].storeError )
    => /\ req[r].status # 200
       /\ req[r].builds <= 1
       /\ req[r].status = 201 =>
            /\ req[r].builds = 1
            /\ req[r].data.id = req[r - 1].data.id
            /\ Len(records) = Len(req[r].before)
            /\ req[r].data.fileName # req[r - 1].data.fileName
            /\ req[r].data.downloads = req[r - 1].data.downloads + 1

C6_FailedBuildWritesNothing ==
  \A r \in Reqs :
    ( /\ req[r].builds > 0
      /\ req[r].pc \in {"buildExecutable", "done"}
      /\ ~req[r].buildResult.success ) =>
      /\ req[r].writes = 0
      /\ Answered(r) =>
           /\ req[r].status = 500
           /\ Alone(r) => records = req[r].before

\* a failed rebuild of a record that has lost its file
C6_Witness ==
  \E r \in Reqs :
    /\ Answered(r) /\ req[r].builds = 1 /\ ~req[r].buildResult.success
    /\ req[r].status = 500 /\ Alone(r)
    /\ req[r].found # NoDoc

(***************************************************************************)
(* C7.  Once a request that created a workspace is answered, the           *)
(* workspace does not exist.  Stated as the claim states it.               *)
(***************************************************************************)
C7_NoOrphanWorkspace ==
  \A r \in Reqs :
    (Answered(r) /\ req[r].mkdirs > 0) =>
      ~Exists(tempDirs, req[r].workDir)

(***************************************************************************)
(* C8.  Two builds that both hold a workspace hold different ones.         *)
(* Stated as the claim states it.                                          *)
(***************************************************************************)
C8_DistinctWorkspaces ==
  \A r1, r2 \in Reqs :
    (r1 # r2 /\ Building(r1) /\ Building(r2)) =>
      req[r1].workDir # req[r2].workDir

(***************************************************************************)
(* C9.  A request whose lookup found no record and whose build succeeded   *)
(* inserts one record, unless the store throws: downloads 1; name,         *)
(* description, tags, version and repositoryManager those of the resolved  *)
(* package; fileName and fileSize those the build returned; the fileName   *)
(* made of the safe name, the resolved version, the os and a suffix.  The  *)
(* answer is 201 with that record, and a request that met no other leaves  *)
(* the collection one record longer.                                       *)
(***************************************************************************)
C9_FirstBuildInsertsTheRecord ==
  \A r \in Reqs :
    ( /\ Answered(r) /\ ~req[r].storeError
      /\ req[r].found = NoDoc
      /\ req[r].buildResult.success ) =>
      LET q == req[r]
          rec == q.stored
          nameLen == Len(q.packageInfo.name)
      IN  /\ q.status = 201 /\ q.writes = 1
          /\ q.data = rec
          /\ rec.id \in 1..Len(records) /\ rec.id > Len(q.before)
          /\ rec.downloads = 1
          /\ rec.name = q.packageInfo.name
          /\ rec.description = q.packageInfo.description
          /\ rec.tags = q.packageInfo.keywords
          /\ rec.version = q.packageInfo.version
          /\ rec.repositoryManager = q.packageInfo.repositoryManager
          /\ rec.fileName = q.buildResult.fileName
          /\ rec.fileSize = q.buildResult.fileSize
          /\ Len(rec.fileName) > nameLen + 4
          /\ IsSafeName(SubSeq(rec.fileName, 1, nameLen),
                        q.packageInfo.name)
          /\ StartsWith(SubSeq(rec.fileName, nameLen + 1,
                               Len(rec.fileName)),
                        <<"_", q.packageInfo.version, "_", q.body.os, "_">>)
          /\ Alone(r) => records = Append(q.before, rec)

\* the first build of a scoped package requested as "latest"
C9_Witness ==
  \E r \in Reqs :
    /\ Answered(r) /\ req[r].status = 201 /\ req[r].found = NoDoc
    /\ req[r].body.version = "latest"
    /\ req[r].packageInfo.version = "2.0.0"
    /\ Head(req[r].body.name) = "@"
    /\ records = <<req[r].data>>

(***************************************************************************)
(* C10.  No record is ever deleted, and a key that was answered with a     *)
(* record is never absent again: the record that answered a request        *)
(* stays in the collection, and the lookup of that request's key goes on   *)
(* finding a record.  Stated as the claim states it.                       *)
(***************************************************************************)
C10_NeverAbsentAgain ==
  \A r \in Reqs :
    Succeeded(r) =>
      /\ req[r].data.id \in 1..Len(records)
      /\ records[req[r].data.id].id = req[r].data.id
      /\ FindOneMatches(records, req[r].body.name,
                        req[r].body.repositoryManager,
                        CriteriaVersion(req[r].body.version)) # {}

\* the requests whose build published fileName f in the executables
\* directory
Publishers(f) ==
  {r \in Reqs : req[r].buildResult.success /\ req[r].buildResult.fileName = f}

\* f without its last element
Front(f) == SubSeq(f, 1, Len(f) - 1)

C12_ExactFileSize ==
  \A r \in Reqs :
    ( /\ req[r].buildResult.success
      /\ req[r].buildResult.fileName \in DOMAIN files )
    => req[r].buildResult.fileSize = files[req[r].buildResult.fileName]

\* the build of r has returned a failure
BuildReturnedFailure(r) ==
  /\ req[r].builds > 0
  /\ req[r].pc \in {"buildExecutable", "done"}
  /\ ~req[r].buildResult.success

(***************************************************************************)
(* C13.  Once a build has returned a failure, the side directory its npm   *)
(* install used under the temp directory is gone, and the build has added  *)
(* no file to the executables directory: when the request met no other,    *)
(* every file there belongs to a record that existed when the request      *)
(* arrived or was published by an earlier request.  Stated as the claim    *)
(* states it.                                                              *)
(***************************************************************************)
C13_FailedBuildLeavesNothing ==
  \A r \in Reqs :
    BuildReturnedFailure(r) =>
      /\ req[r].flatDir # <<>> => ~Exists(tempDirs, req[r].flatDir)
      /\ Alone(r) =>
           DOMAIN files \subseteq
             {req[r].before[i].fileName : i \in 1..Len(req[r].before)}
             \cup {req[x].buildResult.fileName : x \in Reqs \ {r}}

(***************************************************************************)
(* C14.  A request one of whose store operations threw is answered 500,    *)
(* and when the throw came after its build had succeeded and the request   *)
(* met no other, the collection is as the request found it.  Stated as     *)
(* the claim states it.                                                    *)
(***************************************************************************)
C14_StoreFailureChangesNothing ==
  \A r \in Reqs :
    req[r].storeError =>
      /\ Answered(r) /\ req[r].status = 500 /\ req[r].data = NoDoc
      /\ (req[r].buildResult.success /\ Alone(r)) =>
           records = req[r].before

\* the record the build of r produced has been written to the store
BuiltAndPersisted(r) ==
  req[r].builds > 0 /\ req[r].buildResult.success /\ req[r].writes > 0

(***************************************************************************)
(* C15.  A request that passed validation has no response until it is      *)
(* answered and then has one, whose status is 200 exactly when its lookup  *)
(* hit and the record was saved, 201 exactly when its build ran and the    *)
(* record it produced was persisted, 404 exactly when getPackageInfo       *)
(* returned null, and 500 exactly when its build returned a failure or a   *)
(* store operation threw.  Stated as the claim states it.                  *)
(***************************************************************************)
C15_StatusTellsTheOutcome ==
  \A r \in Reqs :
    /\ ~Answered(r) => req[r].status = 0
    /\ (Answered(r) /\ req[r].status # 400) =>
         /\ req[r].status \in {200, 201, 404, 500}
         /\ req[r].status = 200 <=>
              (Hit(r) /\ req[r].writes > 0 /\ ~req[r].storeError)
         /\ req[r].status = 201 <=> BuiltAndPersisted(r)
         /\ req[r].status = 404 <=>
              (req[r].resolves > 0 /\ req[r].packageInfo = NoInfo)
         /\ req[r].status = 500 <=>
              (BuildReturnedFailure(r) \/ req[r].storeError)

(***************************************************************************)
(* C16.  The artifact of the record a request is answered with was built   *)
(* for the os of the request: the build that published the record's file   *)
(* was asked for that os.  Stated as the claim states it.                  *)
(***************************************************************************)
C16_ArtifactOfTheRequestedOs ==
  \A r \in Reqs :
    Succeeded(r) =>
      \A x \in Publishers(req[r].data.fileName) :
        req[x].body.os = req[r].body.os

(***************************************************************************)
(* C17.  The steps of one request come in the order lookup, resolution,    *)
(* workspace creation, build, workspace release, write of the record,      *)
(* response: the resolver is called after the lookup returned; the build   *)
(* starts after a resolution that succeeded and makes its workspace        *)
(* first; while the build runs nothing is released or written; the         *)
(* release comes when the build steps are over; a request that did not     *)
(* hit writes its record only after its build succeeded and released the   *)
(* workspace; and a record is in the response only once it is written.     *)
(***************************************************************************)
C17_StepsInOrder ==
  \A r \in Reqs :
    LET q == req[r]
    IN  /\ q.resolves > 0 => q.pc \notin {"idle", "findOne"}
        /\ q.builds > 0 => (q.resolves = 1 /\ q.packageInfo # NoInfo)
        /\ q.mkdirs > 0 => q.builds = 1
        /\ Building(r) => (q.mkdirs = 1 /\ q.releases = 0 /\ q.writes = 0)
        /\ q.releases > 0 => (q.mkdirs = 1 /\ ~Building(r))
        /\ (q.writes > 0 /\ ~Hit(r)) =>
             (q.buildResult.success /\ q.releases = 1)
        /\ q.data # NoDoc => (Answered(r) /\ q.writes = 1)
        /\ q.status # 0 => Answered(r)

\* a rebuild that went through every step
C17_Witness ==
  \E r \in Reqs :
    /\ Answered(r) /\ req[r].status = 201 /\ req[r].found # NoDoc
    /\ req[r].resolves = 1 /\ req[r].builds = 1 /\ req[r].mkdirs = 1
    /\ req[r].releases = 1 /\ req[r].writes = 1
    /\ ~Exists(tempDirs, req[r].workDir)

(***************************************************************************)
(* C18.  A build calls cleanupDirectory on its workDir once, and does so   *)
(* when its steps are over: never while a step is still to run, and once   *)
(* by the time buildExecutable has returned, whether it returned a         *)
(* success or a failure (that of mkdirSync(workDir) included).             *)
(***************************************************************************)
C18_ReleasedOnce ==
  \A r \in Reqs :
    req[r].builds > 0 =>
      /\ req[r].releases = (IF Building(r) THEN 0 ELSE 1)
      /\ Building(r) \/ req[r].pc \in {"buildExecutable", "updateOne",
                                       "findById", "create", "done"}

\* one build that failed and one that succeeded, both over
C18_Witness ==
  \E r1, r2 \in Reqs :
    /\ BuildReturnedFailure(r1) /\ req[r1].releases = 1
    /\ req[r2].buildResult.success /\ req[r2].releases = 1

\* the ways the build of r can return at its next step
Returns(r) ==
  LET q == req[r]
      outcomes ==
        IF q.pc = "getPackageInfo" /\ ~NotFound(q.packageInfo)
        THEN BuildBegin(q.packageInfo, q.body.os, now, tempDirs, files)
        ELSE IF q.pc = "downloadPackage"
        THEN CreateExecutableBegin(q.packageInfo, q.body.os, q.workDir, now,
                                   random + 1, tempDirs, files)
        ELSE IF q.pc = "npmInstallPkg"
        THEN AfterNpmInstallPkg(q.packageInfo, q.body.os, q.workDir,
                                tempDirs, files)
        ELSE IF q.pc = "pkg"
        THEN AfterPkg(q.packageInfo, q.body.os, q.workDir, now, random + 1,
                      tempDirs, files)
        ELSE {}
  IN  {o \in outcomes : o.pc = "buildExecutable"}

\* the workspace the build of r has or is about to make
WorkDirOf(r) ==
  IF req[r].pc = "getPackageInfo"
  THEN BuildId(req[r].packageInfo, req[r].body.os, now)
  ELSE req[r].workDir

(***************************************************************************)
(* C19.  Each way a build can return with its workspace left on disk by a  *)
(* failed removal has a twin in which the removal succeeded and the        *)
(* result (success, fileName, fileSize) and the executables directory are  *)
(* the same.  A build whose mkdirSync(workDir) threw has returned a        *)
(* failure, and its request writes no record and is answered 500.          *)
(***************************************************************************)
C19_ReleaseFailureIsSwallowed ==
  \A r \in Reqs :
    /\ \A o \in Returns(r) :
         Exists(o.dirs, WorkDirOf(r)) =>
           \E p \in Returns(r) :
             /\ p.dirs = Without(o.dirs, WorkDirOf(r))
             /\ p.result = o.result
             /\ p.files = o.files
    /\ (req[r].builds > 0 /\ ~req[r].created) =>
         /\ BuildReturnedFailure(r)
         /\ req[r].writes = 0
         /\ Answered(r) => (req[r].status = 500 /\ req[r].data = NoDoc)

\* a request answered 201 although the removal of its workspace failed,
\* and one answered 500 because its workspace could not be made
C19_Witness ==
  \E r1, r2 \in Reqs :
    /\ Answered(r1) /\ req[r1].status = 201 /\ req[r1].inflight = {}
    /\ Exists(tempDirs, req[r1].workDir)
    /\ Answered(r2) /\ req[r2].builds = 1 /\ ~req[r2].created
    /\ req[r2].status = 500

\* the step in which r finds its record with the file on disk
HitLookupStep(r) == req[r].pc = "findOne" /\ req'[r].pc = "save"

\* the step in which r's save returns and r is answered 200
HitSaveStep(r) ==
  req[r].pc = "save" /\ req'[r].pc = "done" /\ req'[r].status = 200

(***************************************************************************)
(* C20.  The steps of a cache hit change nothing but the downloads of the  *)
(* matched record: the lookup step leaves the collection, the executables  *)
(* directory and the temp directory as they are, and the save step leaves  *)
(* the two directories and the number of records as they are, every other  *)
(* record as it is, and every field of the matched record but downloads    *)
(* as it is.                                                               *)
(***************************************************************************)
C20_HitChangesDownloadsOnly ==
  [][\A r \in Reqs :
       /\ HitLookupStep(r) =>
            (records' = records /\ files' = files /\ tempDirs' = tempDirs)
       /\ HitSaveStep(r) =>
            /\ files' = files /\ tempDirs' = tempDirs
            /\ Len(records') = Len(records)
            /\ \A i \in 1..Len(records) :
                 IF i = req[r].found.id
                 THEN records'[i] =
                        [records[i] EXCEPT !.downloads = records'[i].downloads]
                 ELSE records'[i] = records[i]]_vars

\* a hit answered while the temp directory holds a workspace left behind
C20_Witness ==
  \E r \in Reqs :
    /\ Hit(r) /\ Answered(r) /\ req[r].status = 200
    /\ records # <<>> /\ DOMAIN files # {} /\ DOMAIN tempDirs # {}
    /\ records[req[r].found.id].downloads = req[r].found.downloads + 1

(***************************************************************************)
(* C21.  A download request that lacks name, repositoryManager or os, or   *)
(* whose repositoryManager is not npm or pip, or whose os is not windows,  *)
(* macos or linux, is answered 400 as soon as it arrives: it never looks   *)
(* the cache up, never calls the resolver, creates no workspace, runs no   *)
(* build and writes no record; and a request that passes these checks is   *)
(* never answered 400.                                                     *)
(***************************************************************************)
\* r carries a body the validation refuses
Refused(r) ==
  /\ req[r].pc # "idle"
  /\ \/ req[r].body.name = <<>>
     \/ req[r].body.repositoryManager \notin {"npm", "pip"}
     \/ req[r].body.os \notin {"windows", "macos", "linux"}

C21_InvalidRequestRejected ==
  \A r \in Reqs :
    /\ Refused(r) =>
         /\ Answered(r) /\ req[r].status = 400
         /\ req[r].found = NoDoc /\ req[r].filesSeen = {}
         /\ req[r].resolves = 0 /\ req[r].builds = 0
         /\ req[r].mkdirs = 0 /\ req[r].writes = 0
         /\ req[r].workDir = <<>> /\ req[r].stored = NoDoc
         /\ req[r].data = NoDoc
         /\ Alone(r) => records = req[r].before
    /\ (Answered(r) /\ req[r].status = 400) => Refused(r)

C21_Witness ==
  \E r \in Reqs :
    /\ Refused(r) /\ Answered(r) /\ req[r].status = 400
    /\ req[r].body.os = "win"
    /\ records # <<>>

\* s ends in ".exe"
EndsInExe(s) == s # <<>> /\ s[Len(s)] = ".exe"

\* r is an npm build that has named the binary it asks the toolchain for
NamedBinary(r) == req[r].executableName # <<>>

\* the installed module's package.json, for the npm build of r
InstalledPackageJson(r) ==
  ModulePackageJson(req[r].packageInfo.name, req[r].packageInfo.version)

(***************************************************************************)
(* C22.  For every target, the fileName published to the executables       *)
(* directory and the name of the binary the toolchain is asked to produce  *)
(* end in ".exe" exactly when the target is windows.  The published        *)
(* fileName does; the name createNpmExecutable gives to pkg does not.      *)
(***************************************************************************)
C22_ExtensionByTable ==
  \A r \in Reqs :
    /\ req[r].buildResult.success =>
         (EndsInExe(req[r].buildResult.fileName)
            <=> req[r].body.os = "windows")
    /\ NamedBinary(r) =>
         (EndsInExe(req[r].executableName) <=> req[r].body.os = "windows")

(***************************************************************************)
(* C23.  For every npm build, the platform token of the --targets argument *)
(* given to pkg is pkg's token for the requested target: win for windows,  *)
(* macos for macos, linux for linux.                                       *)
(***************************************************************************)
C23_ToolchainPlatformToken ==
  \A r \in Reqs :
    req[r].targetPlatform # <<>> =>
      req[r].targetPlatform[2] =
        CASE req[r].body.os = "windows" -> "win"
          [] req[r].body.os = "macos" -> "macos"
          [] OTHER -> "linux"

(***************************************************************************)
(* C24.  When the installed npm package declares a "bin" map with several  *)
(* named entries, the entry point of the build is the first entry of the   *)
(* map, whatever the names of the entries.                                 *)
(***************************************************************************)
C24_FirstBinEntry ==
  \A r \in Reqs :
    (/\ req[r].entryPoint # <<>>
     /\ Has(InstalledPackageJson(r), "bin")
     /\ Len(InstalledPackageJson(r).bin) > 1)
      => req[r].entryPoint = <<InstalledPackageJson(r).bin[1][2]>>

(***************************************************************************)
(* C25.  When the installed npm package declares no "bin", the npm build   *)
(* fails even if the package declares "main": pkg is never run on it, the  *)
(* build returns no success, publishes no file and the request writes no   *)
(* record.                                                                 *)
(***************************************************************************)
C25_NoBinFailsTheBuild ==
  \A r \in Reqs :
    (/\ req[r].builds > 0
     /\ req[r].packageInfo.repositoryManager = "npm"
     /\ ~Has(InstalledPackageJson(r), "bin"))
      => /\ req[r].pc # "pkg"
         /\ req[r].entryPoint = <<>>
         /\ ~req[r].buildResult.success
         /\ req[r].writes = 0

\* the registry documents the metadata of r can have been read from
RegistryData(r) ==
  LET info == req[r].packageInfo
  IN  IF info.repositoryManager = "npm"
      THEN {NpmPackageData(info.name, info.version)}
      ELSE IF req[r].pipTempDir = <<>>
      THEN {PipInstalledData(info.name)}
      ELSE {PipVenvData(info.name, info.version)}

\* the text the registry has under field, "" when it has none
RegistryText(d, field) == IF Has(d, field) THEN d[field] ELSE ""

\* the resolver gave r the metadata of a package
Resolved(r) == req[r].packageInfo # NoInfo

(***************************************************************************)
(* C26.  Every metadata value the resolver returns, for npm and for pip,   *)
(* has a description and keywords: the description is the registry's       *)
(* description (for pip its summary), or "No description available" when   *)
(* the registry has none; the keywords are the registry's keywords, or     *)
(* the empty sequence when the registry has none.                          *)
(***************************************************************************)
C26_MetadataDefaults ==
  \A r \in Reqs :
    Resolved(r) =>
      /\ req[r].packageInfo.description # ""
      /\ \E d \in RegistryData(r) :
           LET text == RegistryText(d, IF req[r].packageInfo.repositoryManager
                                            = "npm"
                                       THEN "description" ELSE "summary")
           IN  /\ req[r].packageInfo.description =
                    IF text = "" THEN Placeholder ELSE text
               /\ req[r].packageInfo.keywords =
                    IF Has(d, "keywords") THEN d.keywords ELSE <<>>

C26_Witness ==
  /\ Resolved(1) /\ Resolved(2)
  /\ req[1].packageInfo.repositoryManager = "npm"
  /\ req[1].packageInfo.description = Placeholder
  /\ req[1].packageInfo.keywords = <<>>
  /\ req[2].packageInfo.repositoryManager = "pip"
  /\ req[2].packageInfo.description = "left pad"

(***************************************************************************)
(* C27.  Whenever the pip resolver provisions a disposable environment,    *)
(* the directory of the environment is gone when the resolver returns,     *)
(* whether the creation, the installation and the introspection succeeded  *)
(* or failed.  The model runs the resolver in one step, so every state     *)
(* after the call is a state after its return.                             *)
(***************************************************************************)
C27_DisposableEnvironmentRemoved ==
  \A r \in Reqs :
    req[r].pipTempDir # <<>> => ~Exists(tempDirs, req[r].pipTempDir)

(***************************************************************************)
(* Progress.  An awaited operation that is bounded in time completes, so   *)
(* the handler takes its next step: the store operations, and the steps    *)
(* whose external commands run under execSync with a timeout (the          *)
(* resolver, downloadPackage, createPipExecutable).  `npm install pkg` and *)
(* the pkg command run under executeCommand, an exec without timeout:      *)
(* nothing in the program makes NpmInstallPkgDone or PkgDone happen.       *)
(***************************************************************************)
BoundedStep(r) ==
  \/ FindOneDone(r)
  \/ SaveDone(r)
  \/ GetPackageInfoDone(r)
  \/ DownloadPackageDone(r)
  \/ BuildExecutableDone(r)
  \/ UpdateOneDone(r)
  \/ FindByIdDone(r)
  \/ CreateDone(r)

LiveSpec ==
  Init /\ [][SeqNext]_vars /\ \A r \in Reqs : WF_vars(BoundedStep(r))

(***************************************************************************)
(* C28.  Every external command of a build carries its own timeout, so     *)
(* every build that started eventually returns, with success or failure,   *)
(* even if a tool never exits on its own.                                  *)
(***************************************************************************)
C28_EveryBuildReturns ==
  \A r \in Reqs : Building(r) ~> ~Building(r)

(***************************************************************************)
(* C29.  When each request is issued after the previous one was answered,  *)
(* the collection never holds two records with the same name,              *)
(* repositoryManager and stored version.                                   *)
(***************************************************************************)
C29_OneRecordPerKey ==
  \A i, j \in 1..Len(records) :
    (/\ records[i].name = records[j].name
     /\ records[i].repositoryManager = records[j].repositoryManager
     /\ records[i].version = records[j].version)
      => i = j

(***************************************************************************)
(* The service over a longer run: at most MaxRequests requests are in      *)
(* flight at once, and an answered request leaves, so that the next client *)
(* is served.  Every client asks for the same package, without version.    *)
(* The clock, which is read only to name workspaces and files, is not      *)
(* advanced during the run.                                                *)
(***************************************************************************)
SamePackage ==
  {[name |-> SP, repositoryManager |-> "npm", os |-> "linux",
    version |-> Undefined]}

\* the answered request r leaves
Leave(r) ==
  /\ Answered(r)
  /\ random <= MaxDraws
  /\ \A i \in 1..Len(records) : records[i].downloads < MaxDownloads
  /\ req' = [req EXCEPT ![r] = IdleReq]
  /\ UNCHANGED <<records, files, tempDirs, now, random, removed>>

ServiceNext ==
  \/ \E r \in Reqs : StartFrom(r, SamePackage)
  \/ \E r \in Reqs : Step(r)
  \/ \E r \in Reqs : Leave(r)
  \/ RemoveFile

ServiceSpec == Init /\ [][ServiceNext]_vars

(***************************************************************************)
(* C30.  The downloads of a record never decrease: whatever the            *)
(* interleaving of hits and stale rebuilds on a record, every write to the *)
(* collection leaves the downloads of each record at least what they were  *)
(* just before the write.                                                  *)
(***************************************************************************)
C30_DownloadsNeverDecrease ==
  [][\A i \in 1..Len(records) :
       i <= Len(records') /\ records'[i].downloads >= records[i].downloads]_vars

(***************************************************************************)
(* C31.  When requests that hit the same record run concurrently and all   *)
(* are answered 200, no increment is lost: the save of each hit leaves the *)
(* downloads of the record one higher than it was just before that save,   *)
(* so that k hits leave it k higher.                                       *)
(***************************************************************************)
C31_NoLostIncrement ==
  [][\A r \in Reqs :
       HitSaveStep(r) =>
         records'[req[r].executable.id].downloads =
           records[req[r].executable.id].downloads + 1]_vars

(***************************************************************************)
(* C32.  In every success response of a request that built, the            *)
(* downloadUrl names the file the returned record names, also when another *)
(* request wrote the same record between this request's updateOne and its  *)
(* findById.                                                               *)
(***************************************************************************)
C32_UrlNamesTheRecordsFile ==
  \A r \in Reqs :
    (Answered(r) /\ req[r].status = 201) =>
      req[r].downloadUrl = req[r].data.fileName

\* no request is in flight
Quiet == \A r \in Reqs : req[r].pc \in {"idle", "done"}

(***************************************************************************)
(* C33.  Whenever no request is in flight, every file in the executables   *)
(* directory is the fileName of some record: no sequence of requests       *)
(* leaves an artifact that no record references.                           *)
(***************************************************************************)
C33_NoOrphanArtifact ==
  Quiet =>
    \A f \in DOMAIN files :
      \E i \in 1..Len(records) : records[i].fileName = f

(***************************************************************************)
(* Requests that name an exact version, one after the other.               *)
(***************************************************************************)
ExactInputs ==
  {[name |-> SP, repositoryManager |-> "npm", os |-> "linux",
    version |-> "1.0.0"],
   [name |-> LP, repositoryManager |-> "pip", os |-> "linux",
    version |-> "1.0.0"]}

ExactNext ==
  \/ \E r \in Reqs :
       (IF r = 1 THEN TRUE ELSE Answered(r - 1)) /\ StartFrom(r, ExactInputs)
  \/ \E r \in Reqs : Step(r)
  \/ Tick
  \/ RemoveFile

ExactSpec == Init /\ [][ExactNext]_vars

(***************************************************************************)
(* C34.  For a request that names an exact version v, a successful         *)
(* resolution returns metadata whose version is v, for npm and for pip,    *)
(* and the record the build writes has version v.                          *)
(***************************************************************************)
C34_ExactVersionResolved ==
  \A r \in Reqs :
    req[r].body.version \notin {"", Undefined, "latest"} =>
      /\ Resolved(r) => req[r].packageInfo.version = req[r].body.version
      /\ BuiltAndPersisted(r) => req[r].stored.version = req[r].body.version

(***************************************************************************)
(* The two entry points side by side: clients ask for the same package,    *)
(* one after the other, through POST /download or through the              *)
(* downloadExecutable mutation; an answered request leaves.                *)
(***************************************************************************)
\* no other request is in flight
NoneElse(r) == \A x \in Reqs \ {r} : req[x].pc \in {"idle", "done"}

ApiNext ==
  \/ \E r \in Reqs : NoneElse(r) /\ StartFrom(r, SamePackage)
  \/ \E r \in Reqs : NoneElse(r) /\ MutationStartFrom(r, SamePackage)
  \/ \E r \in Reqs : Step(r)
  \/ \E r \in Reqs : Leave(r)
  \/ Tick
  \/ RemoveFile

ApiSpec == Init /\ [][ApiNext]_vars

\* what r met: the document its lookup returned up to downloads, whether
\* the file of that document was on disk, what the resolver and the build
\* returned, and whether a store operation threw
Met(r) ==
  [record |-> IF req[r].found = NoDoc THEN NoDoc
              ELSE [req[r].found EXCEPT !.downloads = 0],
   onDisk |-> Hit(r),
   packageInfo |-> req[r].packageInfo,
   built |-> req[r].buildResult.success,
   storeError |-> req[r].storeError]

(***************************************************************************)
(* C35.  For every input with a valid repositoryManager and os and every   *)
(* state of the cache, the downloadExecutable mutation and POST /download  *)
(* do the same to the collection and the executables directory and report  *)
(* the same outcome: two answered requests for the same input, one         *)
(* through each, that met the same record, file, resolution, build and     *)
(* store behaviour, both succeeded or both failed, and wrote to the store  *)
(* and built the same number of times.                                     *)
(***************************************************************************)
C35_SameThroughBothApis ==
  \A r1, r2 \in Reqs :
    (/\ Answered(r1) /\ Answered(r2)
     /\ req[r1].api = "rest" /\ req[r2].api = "graphql"
     /\ req[r1].body = req[r2].body
     /\ Met(r1) = Met(r2))
      => /\ req[r1].success = req[r2].success
         /\ req[r1].writes = req[r2].writes
         /\ req[r1].builds = req[r2].builds

====
